---- MODULE Spec2Model ----
(***************************************************************************)
(* Model of the IOCL petrol bunk dashboard (archive/app.py).               *)
(*                                                                         *)
(* The program is a Streamlit script: every user interaction re-runs       *)
(* main() from top to bottom.  The state that survives a run is the        *)
(* archive directory, the st.cache_data entry of load_data, and the        *)
(* session's widget values.  One action of the model is one complete run   *)
(* of main() (possibly preceded by the widget change that triggered it),   *)
(* or one change of the archive directory made from outside the program.   *)
(***************************************************************************)
EXTENDS Integers, Sequences, FiniteSets, TLC

(***************************************************************************)
(* Bounds of the model.                                                    *)
(***************************************************************************)
\* largest number of files present in the archive directory at one time
MaxFiles == 2
\* largest number of data rows of a CSV file
MaxRows == 2

(***************************************************************************)
(* Strings.  Python compares str values code point by code point; Alphabet *)
(* lists the characters the model uses in code point order.                *)
(***************************************************************************)
Alphabet == " .0123456789ABCDEFGHIJKLMNOPQRSTUVWXYZ_abcdefghijklmnopqrstuvwxyz"

Digits == "0123456789"

\* s[i] of Python with 1-based i; "" when i is outside the string
Ch(s, i) == IF i >= 1 /\ i <= Len(s) THEN SubSeq(s, i, i) ELSE ""

Ord(c) == CHOOSE i \in 1..Len(Alphabet) : SubSeq(Alphabet, i, i) = c

IsDigit(c) == \E i \in 1..10 : SubSeq(Digits, i, i) = c

DigitVal(c) == (CHOOSE i \in 1..10 : SubSeq(Digits, i, i) = c) - 1

\* c is one of the characters of the string set
OneOf(c, set) == \E i \in 1..Len(set) : SubSeq(set, i, i) = c

\* int() of a string of decimal digits
RECURSIVE ToInt(_)
ToInt(s) ==
    IF Len(s) = 0 THEN 0
    ELSE 10 * ToInt(SubSeq(s, 1, Len(s) - 1)) + DigitVal(Ch(s, Len(s)))

AllDigits(s) == \A i \in 1..Len(s) : IsDigit(Ch(s, i))

\* a < b for two Python str values
StrLess(a, b) ==
    \E k \in 1..(Len(b)) :
        /\ \A j \in 1..(k - 1) : j <= Len(a) /\ Ch(a, j) = Ch(b, j)
        /\ \/ k = Len(a) + 1
           \/ k <= Len(a) /\ Ord(Ch(a, k)) < Ord(Ch(b, k))

\* str.startswith and str.endswith
StartsWith(s, p) == Len(s) >= Len(p) /\ SubSeq(s, 1, Len(p)) = p

EndsWith(s, p) == Len(s) >= Len(p) /\ SubSeq(s, Len(s) - Len(p) + 1, Len(s)) = p

\* a < b for two tuples of integers of the same length (datetime order)
TupleLess(a, b) ==
    \E k \in 1..Len(a) :
        /\ \A j \in 1..(k - 1) : a[j] = b[j]
        /\ a[k] < b[k]

(***************************************************************************)
(* datetime.strptime(s, '%Y_%m_%d_%H%M%S').                                *)
(*                                                                         *)
(* The format is compiled to the regular expression                        *)
(*   (\d\d\d\d)_(1[0-2]|0[1-9]|[1-9])_(3[0-1]|[1-2]\d|0[1-9]|[1-9]| [1-9])  *)
(*   _(2[0-3]|[0-1]\d|\d)([0-5]\d|\d)(6[0-1]|[0-5]\d|\d)                    *)
(* which is matched at the start of s with backtracking; the first match   *)
(* in the order of the alternatives is taken, s must be consumed whole,    *)
(* and the fields must form a valid datetime.                              *)
(***************************************************************************)
\* the alternatives of a directive, in the order the regex tries them:
\* AltLen is the number of characters alternative a consumes, AltOK whether
\* it matches s at position p
AltLen(field, a) ==
    CASE field = "m" -> <<2, 1>>[a]
      [] field = "d" -> <<2, 1, 2>>[a]
      [] field = "H" -> <<2, 1>>[a]
      [] field = "M" -> <<2, 1>>[a]
      [] field = "S" -> <<2, 1>>[a]

AltOK(field, a, s, p) ==
    LET c1 == Ch(s, p)
        c2 == Ch(s, p + 1)
    IN  CASE field = "m" /\ a = 1 ->
                 \/ c1 = "1" /\ OneOf(c2, "012")
                 \/ c1 = "0" /\ OneOf(c2, "123456789")
          [] field = "m" /\ a = 2 -> OneOf(c1, "123456789")
          [] field = "d" /\ a = 1 ->
                 \/ c1 = "3" /\ OneOf(c2, "01")
                 \/ OneOf(c1, "12") /\ IsDigit(c2)
                 \/ c1 = "0" /\ OneOf(c2, "123456789")
          [] field = "d" /\ a = 2 -> OneOf(c1, "123456789")
          [] field = "d" /\ a = 3 -> c1 = " " /\ OneOf(c2, "123456789")
          [] field = "H" /\ a = 1 ->
                 \/ c1 = "2" /\ OneOf(c2, "0123")
                 \/ OneOf(c1, "01") /\ IsDigit(c2)
          [] field = "H" /\ a = 2 -> IsDigit(c1)
          [] field = "M" /\ a = 1 -> OneOf(c1, "012345") /\ IsDigit(c2)
          [] field = "M" /\ a = 2 -> IsDigit(c1)
          [] field = "S" /\ a = 1 ->
                 \/ c1 = "6" /\ OneOf(c2, "01")
                 \/ OneOf(c1, "012345") /\ IsDigit(c2)
          [] field = "S" /\ a = 2 -> IsDigit(c1)

\* the ways the regex can match a prefix of s: one alternative per directive
RegexMatches(s) ==
    IF ~ (Len(s) >= 5 /\ AllDigits(SubSeq(s, 1, 4)) /\ Ch(s, 5) = "_")
    THEN {}
    ELSE
        { c \in [m : 1..2, d : 1..3, H : 1..2, M : 1..2, S : 1..2] :
            LET pd == 6 + AltLen("m", c.m) + 1
                pH == pd + AltLen("d", c.d) + 1
                pM == pH + AltLen("H", c.H)
                pS == pM + AltLen("M", c.M)
            IN  /\ Ch(s, pd - 1) = "_"
                /\ Ch(s, pH - 1) = "_"
                /\ AltOK("m", c.m, s, 6)
                /\ AltOK("d", c.d, s, pd)
                /\ AltOK("H", c.H, s, pH)
                /\ AltOK("M", c.M, s, pM)
                /\ AltOK("S", c.S, s, pS) }

\* the order in which backtracking visits the combinations of alternatives
Priority(c) == <<c.m, c.d, c.H, c.M, c.S>>

\* calendar.monthrange: the number of days of a month
IsLeap(y) == (y % 4 = 0 /\ y % 100 # 0) \/ y % 400 = 0

DaysInMonth(y, m) ==
    IF m = 2 THEN (IF IsLeap(y) THEN 29 ELSE 28)
    ELSE IF m \in {4, 6, 9, 11} THEN 30 ELSE 31

\* int() of a matched group; the day group may start with a blank
GroupInt(s, p, len) ==
    IF Ch(s, p) = " " THEN ToInt(SubSeq(s, p + 1, p + len - 1))
    ELSE ToInt(SubSeq(s, p, p + len - 1))

\* get_latest_csv ends with this exception when strptime raises it
ValueError == "ValueError"

\* the value of strptime(s) in the model when the call raises ValueError
Raises == <<>>

\* the match the regex reports: the first one in backtracking order
FirstMatch(found) ==
    CHOOSE x \in found :
        \A y \in found : y = x \/ TupleLess(Priority(x), Priority(y))

\* the datetime of s as matched by c: <<year, month, day, hour, minute,
\* second>>, or Raises when s has characters left or the fields name no
\* datetime
Convert(s, c) ==
    LET lm == AltLen("m", c.m)
        ld == AltLen("d", c.d)
        lH == AltLen("H", c.H)
        lM == AltLen("M", c.M)
        lS == AltLen("S", c.S)
        year == ToInt(SubSeq(s, 1, 4))
        month == GroupInt(s, 6, lm)
        day == GroupInt(s, 7 + lm, ld)
        hour == GroupInt(s, 8 + lm + ld, lH)
        minute == GroupInt(s, 8 + lm + ld + lH, lM)
        second == GroupInt(s, 8 + lm + ld + lH + lM, lS)
    IN  IF 7 + lm + ld + lH + lM + lS # Len(s) THEN Raises
        ELSE IF year < 1 \/ day > DaysInMonth(year, month) \/ second > 59
             THEN Raises
             ELSE <<year, month, day, hour, minute, second>>

\* strptime for the matches found of the regex on s
Parse(s, found) ==
    IF found = {} THEN Raises ELSE Convert(s, FirstMatch(found))

strptime(s) == Parse(s, RegexMatches(s))

(***************************************************************************)
(* The file locator.                                                       *)
(***************************************************************************)
archive_folder == "archive"

None == "None"

\* the key of max() in get_latest_csv: x[5:-4] parsed as a timestamp
SortKey(x) == strptime(SubSeq(x, 6, Len(x) - 4))

\* the list comprehension of get_latest_csv
IsCsvFile(f) == StartsWith(f, "IOCL_") /\ EndsWith(f, ".csv")

CsvFiles(listing) == SelectSeq(listing, IsCsvFile)

\* the keys of the candidates, in the order of the list
RECURSIVE SortKeys(_)
SortKeys(csv_files) ==
    IF csv_files = <<>> THEN <<>>
    ELSE <<SortKey(Head(csv_files))>> \o SortKeys(Tail(csv_files))

\* MaxByKey with min() in the place of max(): the first oldest candidate
OldestByKey(keys) ==
    CHOOSE k \in 1..Len(keys) :
        /\ \A j \in 1..Len(keys) : ~ TupleLess(keys[j], keys[k])
        /\ \A j \in 1..(k - 1) : TupleLess(keys[k], keys[j])

\* max(csv_files, key=...) for the keys of the candidates: the position of
\* the first element none of the others exceeds
MaxByKey(keys) ==
    CHOOSE k \in 1..Len(keys) :
        /\ \A j \in 1..Len(keys) : ~ TupleLess(keys[k], keys[j])
        /\ \A j \in 1..(k - 1) : TupleLess(keys[j], keys[k])

\* os.path.join(archive_folder, latest_file)
PathJoin(dir, f) == dir \o "/" \o f

\* lines 13 to 16 for the list csv_files, whose keys are keys
Latest(csv_files, keys) ==
    IF csv_files = <<>> THEN None
    ELSE IF \E i \in 1..Len(keys) : keys[i] = Raises
         THEN ValueError
         ELSE PathJoin(archive_folder, csv_files[MaxByKey(keys)])

\* get_latest_csv() when os.listdir returns listing: a path, None, or the
\* ValueError that strptime raises for one of the candidates
get_latest_csv(listing) == Latest(CsvFiles(listing), SortKeys(CsvFiles(listing)))

(***************************************************************************)
(* Data frames.  A cell is a string, a number or NaN; a row maps "index"   *)
(* to its pandas index label and every column name to a cell; a data frame *)
(* is the sequence of its rows.                                            *)
(***************************************************************************)
Str(s) == <<"str", s>>

Num(n) == <<"num", n>>

NaN == <<"nan">>

IsNum(v) == v[1] = "num"

IsNaN(v) == v = NaN

\* the columns of the input file the model keeps (Address and Contact No are
\* carried through to the table unchanged and are left out)
CsvColumns ==
    {"Petrol Pump Name", "State", "District", "Petrol Price", "Diesel Price",
     "XTRAPREMIUM Price", "XTRAMILE Price", "Latitude", "Longitude"}

\* pd.read_csv(csv_file, delimiter='|') for a file whose data lines hold the
\* cell texts raw: an empty cell is read as NaN, rows are labelled 0, 1, ...
read_csv(raw) ==
    [i \in 1..Len(raw) |->
        [c \in CsvColumns \cup {"index"} |->
            IF c = "index" THEN Num(i - 1)
            ELSE IF raw[i][c] = "" THEN NaN ELSE Str(raw[i][c])]]

\* Series.replace(old, new) on one cell
replace(v, old, new) == IF v = Str(old) THEN new ELSE v

\* pd.to_numeric(..., errors='coerce') on one cell
to_numeric(v) ==
    IF v[1] = "str"
    THEN IF Len(v[2]) > 0 /\ AllDigits(v[2]) THEN Num(ToInt(v[2])) ELSE NaN
    ELSE v

\* df[col] = pd.to_numeric(df[col], errors='coerce')
NumericColumn(df, col) ==
    [i \in 1..Len(df) |->
        [c \in DOMAIN df[i] |->
            IF c = col THEN to_numeric(df[i][c]) ELSE df[i][c]]]

\* df[col] = df[col].replace('Not Available', np.nan)
ReplacedColumn(df, col) ==
    [i \in 1..Len(df) |->
        [c \in DOMAIN df[i] |->
            IF c = col THEN replace(df[i][c], "Not Available", NaN)
            ELSE df[i][c]]]

\* df.rename(columns={'Latitude': 'lat', 'Longitude': 'lon'})
NewName(c) ==
    IF c = "Latitude" THEN "lat" ELSE IF c = "Longitude" THEN "lon" ELSE c

OldName(c) ==
    IF c = "lat" THEN "Latitude" ELSE IF c = "lon" THEN "Longitude" ELSE c

rename(df) ==
    [i \in 1..Len(df) |->
        [c \in {NewName(k) : k \in DOMAIN df[i]} |-> df[i][OldName(c)]]]

price_columns ==
    <<"Petrol Price", "Diesel Price", "XTRAPREMIUM Price", "XTRAMILE Price">>

\* the loop over price_columns, from column k on
RECURSIVE CoercePrices(_, _)
CoercePrices(df, k) ==
    IF k > Len(price_columns) THEN df
    ELSE CoercePrices(
             NumericColumn(ReplacedColumn(df, price_columns[k]), price_columns[k]),
             k + 1)

\* the body of load_data after the file has been located
LoadFrame(raw) ==
    LET df1 == CoercePrices(read_csv(raw), 1)
        df2 == rename(df1)
    IN  NumericColumn(NumericColumn(df2, "lat"), "lon")

(***************************************************************************)
(* st.cache_data: the entry of load_data is absent ("miss"), or holds the  *)
(* returned value, None ("none") or a data frame ("df").                   *)
(***************************************************************************)
CacheMiss == [kind |-> "miss", df |-> <<>>]

CacheNone == [kind |-> "none", df |-> <<>>]

CacheDf(df) == [kind |-> "df", df |-> df]

\* load_data without @st.cache_data: the body runs in every call
load_data_uncached(c, csv_file, raw) ==
    IF csv_file = ValueError
    THEN [ret |-> CacheMiss, cache |-> CacheMiss, error |-> FALSE,
          located |-> ValueError, read |-> FALSE]
    ELSE IF csv_file = None
    THEN [ret |-> CacheNone, cache |-> CacheNone, error |-> TRUE,
          located |-> None, read |-> FALSE]
    ELSE LET df == LoadFrame(raw)
         IN  [ret |-> CacheDf(df), cache |-> CacheDf(df), error |-> FALSE,
              located |-> csv_file, read |-> TRUE]

\* load_data() through its cache.  csv_file is what the call of
\* get_latest_csv() returns (or the exception it ends with) and raw the data
\* lines of the file that is read; neither is used when the cache holds an
\* entry.  The result says what main gets (ret), the cache afterwards, whether
\* st.error was shown (on a hit too: st.cache_data replays the elements of
\* the cached call), what the locator answered and whether pd.read_csv was
\* called.
load_data(c, csv_file, raw) ==
    IF c.kind # "miss"
    THEN [ret |-> c, cache |-> c, error |-> (c.kind = "none"),
          located |-> "not called", read |-> FALSE]
    ELSE
        IF csv_file = ValueError
        THEN [ret |-> CacheMiss, cache |-> CacheMiss, error |-> FALSE,
              located |-> ValueError, read |-> FALSE]
        ELSE IF csv_file = None
        THEN [ret |-> CacheNone, cache |-> CacheNone, error |-> TRUE,
              located |-> None, read |-> FALSE]
        ELSE LET df == LoadFrame(raw)
             IN  [ret |-> CacheDf(df), cache |-> CacheDf(df), error |-> FALSE,
                  located |-> csv_file, read |-> TRUE]

(***************************************************************************)
(* Lists of Python str values.                                             *)
(***************************************************************************)
Range(seq) == {seq[i] : i \in 1..Len(seq)}

Front(seq) == SubSeq(seq, 1, Len(seq) - 1)

\* Series.unique().tolist(): the distinct values in order of first appearance
RECURSIVE Unique(_)
Unique(seq) ==
    IF seq = <<>> THEN <<>>
    ELSE LET u == Unique(Front(seq))
             x == seq[Len(seq)]
         IN  IF x \in Range(u) THEN u ELSE Append(u, x)

\* x put into an ascending list behind the elements that are not greater
Insert(sorted, x) ==
    LET n == Cardinality({i \in 1..Len(sorted) : ~ StrLess(x, sorted[i])})
    IN  SubSeq(sorted, 1, n) \o <<x>> \o SubSeq(sorted, n + 1, Len(sorted))

\* sorted(list)
RECURSIVE Sorted(_)
Sorted(seq) ==
    IF seq = <<>> THEN <<>>
    ELSE Insert(Sorted(Front(seq)), seq[Len(seq)])

\* df[col].tolist() for a column of strings
ColumnList(df, col) == [i \in 1..Len(df) |-> df[i][col][2]]

(***************************************************************************)
(* The filter layer.                                                       *)
(***************************************************************************)
All == "All"

\* ["All"] + sorted(df["State"].unique().tolist())
StateOptions(df) == <<All>> \o Sorted(Unique(ColumnList(df, "State")))

\* df[df[col] == value]
WhereEq(df, col, value) == SelectSeq(df, LAMBDA r : r[col] = Str(value))

\* DistrictOptions without the cascade: the districts of all states
DistrictOptions_all_states(df, selected_state) ==
    <<All>> \o Sorted(Unique(ColumnList(df, "District")))

\* the district options for a state selection
DistrictOptions(df, selected_state) ==
    IF selected_state # All
    THEN <<All>> \o
         Sorted(Unique(ColumnList(WhereEq(df, "State", selected_state), "District")))
    ELSE <<All>> \o Sorted(Unique(ColumnList(df, "District")))

\* the two filters of main
FilterState(df, selected_state) ==
    IF selected_state # All THEN WhereEq(df, "State", selected_state) ELSE df

FilterDistrict(df, selected_district) ==
    IF selected_district # All THEN WhereEq(df, "District", selected_district)
    ELSE df

\* ApplyFilters with the district filter taken from the unfiltered frame
ApplyFilters_district_wins(df, selected_state, selected_district) ==
    IF selected_district # All THEN FilterDistrict(df, selected_district)
    ELSE FilterState(df, selected_state)

\* "Apply filters": the state filter, then the district filter on its result
ApplyFilters(df, selected_state, selected_district) ==
    FilterDistrict(FilterState(df, selected_state), selected_district)

\* selectbox that keeps the stored value of a label whatever the options are
selectbox_sticky(widgets, label, options) ==
    IF label \in DOMAIN widgets THEN widgets[label].value ELSE options[1]

\* st.sidebar.selectbox(label, options) in a session whose widget values are
\* widgets: a widget is identified by its label and its options; its stored
\* value is returned, and a widget not seen in the last run starts at the
\* first option
selectbox(widgets, label, options) ==
    IF label \in DOMAIN widgets /\ widgets[label].options = options
    THEN widgets[label].value
    ELSE options[1]

(***************************************************************************)
(* The presentation layer.                                                 *)
(***************************************************************************)
RECURSIVE SumNums(_)
SumNums(vals) ==
    IF vals = <<>> THEN 0 ELSE vals[1][2] + SumNums(Tail(vals))

\* Mean with NaN counted as 0: the sum is divided by the number of rows
Mean_nan_as_zero(df, col) ==
    LET vals == SelectSeq([i \in 1..Len(df) |-> df[i][col]], IsNum)
    IN  [num |-> SumNums(vals), den |-> Len(df)]

\* Series.mean(): the mean of the cells that are not NaN, as the fraction
\* num/den; den = 0 stands for nan (no cell is numeric)
Mean(df, col) ==
    LET vals == SelectSeq([i \in 1..Len(df) |-> df[i][col]], IsNum)
    IN  [num |-> SumNums(vals), den |-> Len(vals)]

\* f"{x:.2f}" (the means of the model never lie halfway between two values)
Format2f(x) ==
    IF x.den = 0 THEN "nan"
    ELSE LET h == (200 * x.num + x.den) \div (2 * x.den)
         IN  ToString(h \div 100) \o "." \o
             ToString((h % 100) \div 10) \o ToString(h % 10)

\* dropna with how='all': a row is dropped only when both cells are NaN
dropna_how_all(df) ==
    SelectSeq(df, LAMBDA r : ~ (IsNaN(r["lat"]) /\ IsNaN(r["lon"])))

\* df.dropna(subset=['lat', 'lon'])
dropna(df) == SelectSeq(df, LAMBDA r : ~ IsNaN(r["lat"]) /\ ~ IsNaN(r["lon"]))

\* create_map without the check of map_df.empty
create_map_no_check(df) ==
    LET map_df == dropna(df)
    IN  [ret |-> "Deck", warning |-> FALSE, data |-> map_df,
         latitude |-> Mean(map_df, "lat"),
         longitude |-> Mean(map_df, "lon")]

\* create_map(df): the deck that is returned, or None after the warning
create_map(df) ==
    LET map_df == dropna(df)
    IN  IF map_df = <<>>
        THEN [ret |-> None, warning |-> TRUE, data |-> <<>>,
              latitude |-> [num |-> 0, den |-> 0],
              longitude |-> [num |-> 0, den |-> 0]]
        ELSE [ret |-> "Deck", warning |-> FALSE, data |-> map_df,
              latitude |-> Mean(map_df, "lat"),
              longitude |-> Mean(map_df, "lon")]

\* df[price_columns].mean().reset_index() with its two columns renamed
PriceChart(df) ==
    [k \in 1..Len(price_columns) |->
        [c \in {"Fuel Type", "Average Price"} |->
            IF c = "Fuel Type" THEN Str(price_columns[k])
            ELSE <<"mean", Mean(df, price_columns[k])>>]]

TableColumns ==
    {"Petrol Pump Name", "Petrol Price", "Diesel Price", "District", "State"}

\* df[[...]] of the data table
Project(df) ==
    [i \in 1..Len(df) |-> [c \in TableColumns \cup {"index"} |-> df[i][c]]]

(***************************************************************************)
(* main(): one run of the script.                                          *)
(***************************************************************************)
\* what a run has put on the page: order lists the elements in the order
\* they were emitted, the other fields hold their contents; located is the
\* answer of the file locator in this run and loaded what load_data returned
BlankView ==
    [order |-> <<"title">>, located |-> "not called", loaded |-> CacheMiss,
     state_options |-> <<>>, selected_state |-> "",
     district_options |-> <<>>, selected_district |-> "",
     df |-> <<>>, total |-> 0, avg_petrol |-> "", avg_diesel |-> "",
     chart |-> <<>>, map |-> create_map(<<>>), table |-> <<>>]

\* the page title and what load_data has shown
Top(ld) == <<"title">> \o (IF ld.error THEN <<"error">> ELSE <<>>)

\* main when load_data ends with an exception: Streamlit shows the exception
\* and the run is over
Failed(ld) ==
    [cache |-> ld.cache, read |-> ld.read, widgets |-> <<>>,
     view |-> [BlankView EXCEPT !.order = Top(ld) \o <<"exception">>,
                                !.located = ld.located]]

\* main when df is None: the return of line 86
Stopped(ld) ==
    [cache |-> ld.cache, read |-> ld.read, widgets |-> <<>>,
     view |-> [BlankView EXCEPT !.order = Top(ld),
                                !.located = ld.located,
                                !.loaded = ld.ret]]

\* main from the sidebar on (lines 88 to 128), for the frame df0
Render(ld, df0, widgets) ==
    LET state_options == StateOptions(df0)
        selected_state == selectbox(widgets, "Select State", state_options)
        district_options == DistrictOptions(df0, selected_state)
        selected_district ==
            selectbox(widgets, "Select District", district_options)
        df == ApplyFilters(df0, selected_state, selected_district)
        map_chart == create_map(df)
    IN  [cache |-> ld.cache, read |-> ld.read,
         widgets |->
             [w \in {"Select State", "Select District"} |->
                 IF w = "Select State"
                 THEN [options |-> state_options, value |-> selected_state]
                 ELSE [options |-> district_options,
                       value |-> selected_district]],
         view |->
             [order |->
                  Top(ld)
                  \o <<"sidebar.header", "selectbox state",
                       "selectbox district", "header statistics",
                       "metric total", "metric petrol", "metric diesel",
                       "header chart", "plotly_chart", "header map">>
                  \o (IF map_chart.warning THEN <<"warning">> ELSE <<>>)
                  \o (IF map_chart.ret # None THEN <<"pydeck_chart">>
                      ELSE <<>>)
                  \o <<"header table", "dataframe">>,
              located |-> ld.located,
              loaded |-> ld.ret,
              state_options |-> state_options,
              selected_state |-> selected_state,
              district_options |-> district_options,
              selected_district |-> selected_district,
              df |-> df,
              total |-> Len(df),
              avg_petrol |-> "₹" \o Format2f(Mean(df, "Petrol Price")),
              avg_diesel |-> "₹" \o Format2f(Mean(df, "Diesel Price")),
              chart |-> PriceChart(df),
              map |-> map_chart,
              table |-> Project(df)]]

\* main after load_data has ended with ld, without the return of line 86:
\* on None it goes on with no rows
After_no_return(ld, widgets) ==
    IF ld.located = ValueError THEN Failed(ld)
    ELSE Render(ld, ld.ret.df, widgets)

\* main after load_data has ended with ld
After(ld, widgets) ==
    IF ld.located = ValueError THEN Failed(ld)
    ELSE IF ld.ret.kind = "none" THEN Stopped(ld)
    ELSE Render(ld, ld.ret.df, widgets)

\* main() run with the cache entry c and the widget values widgets, when
\* get_latest_csv() returns csv_file and the file that is read holds raw
main(c, widgets, csv_file, raw) == After(load_data(c, csv_file, raw), widgets)

(***************************************************************************)
(* The inputs of the model.                                                *)
(***************************************************************************)
\* the file names that may appear in the archive directory
FileNames ==
    {"IOCL_2024_01_01_120000.csv",
     "IOCL_2024_06_15_090000.csv",
     "IOCL_2025_1_1_1200.csv",
     "IOCL_backup.csv",
     "IOCL_2026_01_01_000000.csv.bak"}

RawRow(name, state, district, petrol, diesel, xp, xm, lat, lon) ==
    [c \in CsvColumns |->
        CASE c = "Petrol Pump Name" -> name
          [] c = "State" -> state
          [] c = "District" -> district
          [] c = "Petrol Price" -> petrol
          [] c = "Diesel Price" -> diesel
          [] c = "XTRAPREMIUM Price" -> xp
          [] c = "XTRAMILE Price" -> xm
          [] c = "Latitude" -> lat
          [] c = "Longitude" -> lon]

\* the data lines a CSV file may hold; every record has a state and a
\* district (spec section 3), prices and coordinates may be unusable
RawRows ==
    {RawRow("A", "Bihar", "Patna", "90", "80", "95", "82", "25", "85"),
     RawRow("B", "Bihar", "Aurangabad", "Not Available", "85",
            "Not Available", "", "24", ""),
     RawRow("C", "Maharashtra", "Aurangabad", "92", "Not Available",
            "97", "88", "", ""),
     RawRow("D", "Maharashtra", "Akola", "abc", "85", "", "x", "N.A.", "77")}

\* the contents a CSV file may have: up to MaxRows data lines in any order,
\* no station listed twice
DataSets ==
    UNION {{d \in [1..n -> RawRows] : \A i, j \in 1..n : d[i] = d[j] => i = j} :
           n \in 0..MaxRows}

\* the orders in which os.listdir may return the files of dir
Listings(dir) ==
    {l \in [1..Cardinality(dir) -> dir] :
        \A i, j \in 1..Cardinality(dir) : l[i] = l[j] => i = j}

(***************************************************************************)
(* The state machine.                                                      *)
(***************************************************************************)
VARIABLES
    archive,    \* the names of the files in the archive directory
    cache,      \* the st.cache_data entry of load_data (process wide)
    reads,      \* the number of pd.read_csv calls made by the process
    content,    \* the data lines of the file pd.read_csv has read
    widgets,    \* the widget values of the session
    view        \* the page produced by the last run of main

vars == <<archive, cache, reads, content, widgets, view>>

NotRun == [BlankView EXCEPT !.order = <<>>]

Init ==
    /\ archive \in {d \in SUBSET FileNames : Cardinality(d) <= MaxFiles}
    /\ cache = CacheMiss
    /\ reads = 0
    /\ content = <<>>
    /\ widgets = <<>>
    /\ view = NotRun

\* what get_latest_csv() can return for the directory dir, over the orders
\* in which os.listdir may list it
Located(dir) == {get_latest_csv(l) : l \in Listings(dir)}

\* one run of main() in a session whose widget values are w; the directory
\* and the file content matter only when load_data is executed
RunMain(w) ==
    \E csv_file \in (IF cache.kind = "miss" THEN Located(archive) ELSE {None}) :
        \E raw \in (IF cache.kind = "miss" /\ csv_file \notin {None, ValueError}
                    THEN DataSets ELSE {<<>>}) :
            LET r == main(cache, w, csv_file, raw)
            IN  /\ cache' = r.cache
                /\ reads' = reads + (IF r.read THEN 1 ELSE 0)
                /\ content' = IF r.read THEN raw ELSE content
                /\ widgets' = r.widgets
                /\ view' = r.view
                /\ UNCHANGED archive

\* the page is opened in a new browser session: no widget has a value yet
NewSession == RunMain(<<>>)

\* the script is re-run in the session without a widget change
Rerun ==
    /\ view # NotRun
    /\ RunMain(widgets)

\* the user picks a value in one of the two select boxes, which re-runs main
Select(label, v) ==
    /\ label \in DOMAIN widgets
    /\ v \in Range(widgets[label].options)
    /\ v # widgets[label].value
    /\ RunMain([widgets EXCEPT ![label].value = v])

SelectState(v) == Select("Select State", v)

SelectDistrict(v) == Select("Select District", v)

\* a file appears in, or disappears from, the archive directory
AddFile(f) ==
    /\ f \notin archive
    /\ Cardinality(archive) < MaxFiles
    /\ archive' = archive \cup {f}
    /\ UNCHANGED <<cache, reads, content, widgets, view>>

RemoveFile(f) ==
    /\ f \in archive
    /\ archive' = archive \ {f}
    /\ UNCHANGED <<cache, reads, content, widgets, view>>

\* the values a select box can offer
OptionValues ==
    {All} \cup {r["State"] : r \in RawRows} \cup {r["District"] : r \in RawRows}

Next ==
    \/ NewSession
    \/ Rerun
    \/ \E v \in OptionValues : SelectState(v)
    \/ \E v \in OptionValues : SelectDistrict(v)
    \/ \E f \in FileNames : AddFile(f)
    \/ \E f \in FileNames : RemoveFile(f)

Spec == Init /\ [][Next]_vars

(***************************************************************************)
(* Properties.                                                             *)
(***************************************************************************)
\* the run of main that has produced the current page went past line 86
Rendered == "dataframe" \in Range(view.order)

\* a step that runs main with an empty cache, so that get_latest_csv is called
\* on the directory as it is before the step
LocatorCalled == cache.kind = "miss" /\ archive' = archive /\ view'.order # <<>>

DigitsAt(f, a, b) == \A i \in a..b : IsDigit(Ch(f, i))

\* the timestamp embedded in a name of the form IOCL_YYYY_MM_DD_HHMMSS.csv
EmbeddedTimestamp(f) ==
    <<ToInt(SubSeq(f, 6, 9)), ToInt(SubSeq(f, 11, 12)), ToInt(SubSeq(f, 14, 15)),
      ToInt(SubSeq(f, 17, 18)), ToInt(SubSeq(f, 19, 20)), ToInt(SubSeq(f, 21, 22))>>

\* f follows the convention IOCL_<YYYY>_<MM>_<DD>_<HHMMSS>.csv
MatchesConvention(f) ==
    /\ Len(f) = 26
    /\ SubSeq(f, 1, 5) = "IOCL_"
    /\ SubSeq(f, 23, 26) = ".csv"
    /\ DigitsAt(f, 6, 9) /\ Ch(f, 10) = "_"
    /\ DigitsAt(f, 11, 12) /\ Ch(f, 13) = "_"
    /\ DigitsAt(f, 14, 15) /\ Ch(f, 16) = "_"
    /\ DigitsAt(f, 17, 22)
    /\ LET t == EmbeddedTimestamp(f)
       IN  /\ t[1] >= 1
           /\ t[2] \in 1..12
           /\ t[3] >= 1 /\ t[3] <= DaysInMonth(t[1], t[2])
           /\ t[4] <= 23 /\ t[5] <= 59 /\ t[6] <= 59

Matching(dir) == {f \in dir : MatchesConvention(f)}

\* the path of the matching file of dir with the latest embedded timestamp,
\* None when no file of dir matches
LatestMatching(dir) ==
    IF Matching(dir) = {} THEN None
    ELSE PathJoin("archive",
             CHOOSE f \in Matching(dir) :
                 \A g \in Matching(dir) :
                     g = f \/ TupleLess(EmbeddedTimestamp(g), EmbeddedTimestamp(f)))

\* every file of dir that carries the prefix and the suffix follows the
\* convention in full
CandidatesMatch(dir) ==
    \A f \in dir :
        (StartsWith(f, "IOCL_") /\ EndsWith(f, ".csv")) => MatchesConvention(f)

\* C1: in a directory whose IOCL_*.csv files all follow the naming convention,
\* get_latest_csv returns the path of the matching file with the maximal
\* embedded timestamp, and None when no file matches.
C1_LatestOfMatching ==
    [][(LocatorCalled /\ CandidatesMatch(archive))
           => view'.located = LatestMatching(archive)]_vars

\* C1 witness: both files of the spec's scenario were in the directory and
\* the locator has answered with the later one.
C1_Witness ==
    /\ view.located = "archive/IOCL_2024_06_15_090000.csv"
    /\ {"IOCL_2024_01_01_120000.csv", "IOCL_2024_06_15_090000.csv"} \subseteq archive

\* C9 as claimed: whatever else the directory holds, get_latest_csv answers
\* with the matching file of maximal timestamp or with None, never with a
\* failure.
C9_NonMatchingIgnored ==
    [][LocatorCalled => view'.located = LatestMatching(archive)]_vars

\* C2: in a run where the file locator reports not found, the error is shown,
\* load_data yields no data and nothing after the title and the error is
\* produced: no widget, statistic, chart, map or table.
C2_NotFoundStops ==
    view.located = None =>
        /\ view.order = <<"title", "error">>
        /\ view.loaded.kind = "none"
        /\ widgets = <<>>
        /\ ~ Rendered

\* C2 witness: a run in which the locator found no candidate although the
\* directory was not empty.
C2_Witness == view.located = None /\ archive # {}

\* the data lines of the file that was read which the selections of the
\* current page let through
StateSelects(sel, i) == sel = All \/ content[i]["State"] = sel

DistrictSelects(sel, i) == sel = All \/ content[i]["District"] = sel

Shown ==
    {i \in 1..Len(content) :
        /\ StateSelects(view.selected_state, i)
        /\ DistrictSelects(view.selected_district, i)}

\* the district values of the data lines whose state is sel (all lines for All)
DistrictsUnder(sel) ==
    {content[i]["District"] : i \in {k \in 1..Len(content) : StateSelects(sel, k)}}

\* C3: the district option list of a run is "All" followed by exactly the
\* district values of the records of the selected state (of all records when
\* the state selection is "All"), in strictly ascending lexicographic order.
C3_DistrictOptions ==
    Rendered =>
        LET opts == view.district_options
        IN  /\ Len(opts) >= 1
            /\ opts[1] = All
            /\ \A i \in 2..(Len(opts) - 1) : StrLess(opts[i], opts[i + 1])
            /\ {opts[i] : i \in 2..Len(opts)} = DistrictsUnder(view.selected_state)

\* C3 witness: with records of two states loaded, "Maharashtra" is selected
\* and its only district, which sorts before "All", is offered after "All".
C3_Witness ==
    /\ Rendered
    /\ view.selected_state = "Maharashtra"
    /\ view.district_options = <<"All", "Akola">>
    /\ \E i \in 1..Len(content) : content[i]["State"] = "Bihar"

StateChoices == {All} \cup {r["State"] : r \in RawRows}

DistrictChoices == {All} \cup {r["District"] : r \in RawRows}

\* C4: on the loaded record set the state filter and the district filter
\* commute, rows in the same order, for every pair of selections, each filter
\* applied twice is the filter applied once, and the rows a run shows are the
\* ones the filters give in the other order.
C4_FiltersCommute ==
    /\ cache.kind = "df" =>
           \A st \in StateChoices, di \in DistrictChoices :
               LET s1 == FilterState(cache.df, st)
                   d1 == FilterDistrict(cache.df, di)
               IN  /\ FilterDistrict(s1, di) = FilterState(d1, st)
                   /\ FilterState(s1, st) = s1
                   /\ FilterDistrict(d1, di) = d1
    /\ Rendered =>
           view.df = FilterState(FilterDistrict(cache.df, view.selected_district),
                                 view.selected_state)

\* C4 witness: a state and a district are selected, the district exists in
\* two states, and one of its two records is shown.
C4_Witness ==
    /\ Rendered
    /\ view.selected_state # All
    /\ view.selected_district # All
    /\ Len(view.df) = 1
    /\ Len(FilterDistrict(cache.df, view.selected_district)) = 2

\* the text of the mean of n values with sum total: the currency sign and the
\* nearest multiple of 0.01 with two decimals, "nan" for no value
MoneyText(total, n) ==
    IF n = 0 THEN "₹nan"
    ELSE LET lo == (100 * total) \div n
             h == CHOOSE x \in lo..(lo + 1) :
                      /\ 2 * (100 * total - x * n) <= n
                      /\ 2 * (x * n - 100 * total) < n
         IN  "₹" \o ToString(h \div 100) \o "."
                 \o SubSeq(ToString(100 + (h % 100)), 2, 3)

\* the sum of a list of integers
RECURSIVE Total(_)
Total(ns) == IF ns = <<>> THEN 0 ELSE ns[Len(ns)] + Total(Front(ns))

\* the text of the mean of column col over the rows of df whose cell is a
\* number
AverageOfRows(df, col) ==
    LET S == {i \in 1..Len(df) : IsNum(df[i][col])}
    IN  MoneyText(Total([i \in 1..Len(df) |->
                            IF i \in S THEN df[i][col][2] ELSE 0]),
                  Cardinality(S))

LacksCoordinate(r) == IsNaN(r["lat"]) \/ IsNaN(r["lon"])

InMap(r) == \E j \in 1..Len(view.map.data) : view.map.data[j]["index"] = r["index"]

InTable(r) == \E j \in 1..Len(view.table) : view.table[j]["index"] = r["index"]

\* C5: a filtered record that lacks a coordinate is not a point of the map,
\* yet it is counted in the total, its prices enter the averages and it is a
\* row of the table; a filtered record with both coordinates is a point of
\* the map.
C5_MissingCoordinates ==
    Rendered =>
        /\ \A i \in 1..Len(view.df) :
               /\ LacksCoordinate(view.df[i]) => ~ InMap(view.df[i])
               /\ ~ LacksCoordinate(view.df[i]) => InMap(view.df[i])
               /\ InTable(view.df[i])
        /\ view.total = Cardinality({view.df[i]["index"] : i \in 1..Len(view.df)})
        /\ view.avg_petrol = AverageOfRows(view.df, "Petrol Price")
        /\ view.avg_diesel = AverageOfRows(view.df, "Diesel Price")

\* C5 witness: the page shows a record with exactly one coordinate missing
\* next to a record with both, and the map has fewer points than the table
\* has rows.
C5_Witness ==
    /\ Rendered
    /\ \E i \in 1..Len(view.df) :
           IsNaN(view.df[i]["lon"]) /\ ~ IsNaN(view.df[i]["lat"])
    /\ \E i \in 1..Len(view.df) : ~ LacksCoordinate(view.df[i])
    /\ view.map.ret # None
    /\ Len(view.map.data) < Len(view.table)

\* a cell text of the file that is a number
NumericText(t) == Len(t) > 0 /\ AllDigits(t)

\* the text of the mean of a price column over the shown data lines whose
\* cell text is a number
AverageOfFile(col) ==
    LET S == {i \in Shown : NumericText(content[i][col])}
    IN  MoneyText(Total([i \in 1..Len(content) |->
                            IF i \in S THEN ToInt(content[i][col]) ELSE 0]),
                  Cardinality(S))

\* the file of the spec's scenario: petrol 90 and diesel 80, then petrol
\* "Not Available" and diesel 85
ScenarioFile ==
    /\ Len(content) = 2
    /\ content[1]["Petrol Price"] = "90" /\ content[1]["Diesel Price"] = "80"
    /\ content[2]["Petrol Price"] = "Not Available"
    /\ content[2]["Diesel Price"] = "85"

\* C6: the displayed count is the number of filtered records, those without a
\* price included, and each displayed average is the mean over the filtered
\* records whose price cell in the file is a number; "Not Available" and any
\* other text count for neither the sum nor the divisor.  For the scenario
\* file under "All"/"All": count 2, petrol 90.00, diesel 82.50.
C6_CountAndAverages ==
    Rendered =>
        /\ view.total = Cardinality(Shown)
        /\ view.avg_petrol = AverageOfFile("Petrol Price")
        /\ view.avg_diesel = AverageOfFile("Diesel Price")
        /\ (ScenarioFile /\ view.selected_state = All /\ view.selected_district = All)
               => /\ view.total = 2
                  /\ view.avg_petrol = "₹90.00"
                  /\ view.avg_diesel = "₹82.50"

\* C6 witness: the scenario file is shown under "All"/"All".
C6_Witness ==
    /\ Rendered
    /\ ScenarioFile
    /\ view.selected_state = All
    /\ view.selected_district = All
    /\ view.avg_petrol = "₹90.00"

\* C7: when every record of the filtered set lacks a coordinate the run emits
\* the warning, renders no map, and still renders the statistics, the chart
\* and, after the map step, the table.
C7_NoCoordinatesWarns ==
    (Rendered /\ \A i \in 1..Len(view.df) : LacksCoordinate(view.df[i])) =>
        view.order =
            <<"title", "sidebar.header", "selectbox state", "selectbox district",
              "header statistics", "metric total", "metric petrol",
              "metric diesel", "header chart", "plotly_chart", "header map",
              "warning", "header table", "dataframe">>

\* C7 witness: the filters have left only records without coordinates,
\* though the loaded set has one with both, and the warning is on the page.
C7_Witness ==
    /\ Rendered
    /\ view.df # <<>>
    /\ \A i \in 1..Len(view.df) : LacksCoordinate(view.df[i])
    /\ \E i \in 1..Len(cache.df) : ~ LacksCoordinate(cache.df[i])
    /\ "warning" \in Range(view.order)

\* C8: pd.read_csv is called at most once by the process; once the record
\* set is loaded no step changes it or reads again, whatever is selected and
\* whatever happens to the archive directory, every later run starts from
\* that record set, and the cache never leaves the loaded state.
C8_LoadedOnce ==
    [][/\ reads' <= 1
       /\ cache.kind = "df" =>
              /\ cache' = cache
              /\ reads' = reads
              /\ content' = content
              /\ view'.loaded = cache]_vars

\* C8 witness: a later run has filtered the loaded record set while the
\* directory holds only a file that was not there when the set was loaded
\* (the locator fails on it).
C8_Witness ==
    /\ cache.kind = "df"
    /\ reads = 1
    /\ Rendered
    /\ view.located = "not called"
    /\ view.selected_state # All
    /\ Len(view.df) < Len(cache.df)
    /\ archive = {"IOCL_backup.csv"}

\* C10: over a non-empty loaded record set the selected district is one of
\* the district options of the run, which are "All" and the districts of the
\* selected state, and the filtered subset shown is not empty.
C10_SelectionInOptions ==
    (Rendered /\ cache.df # <<>>) =>
        /\ view.selected_state \in Range(view.state_options)
        /\ view.selected_district \in Range(view.district_options)
        /\ Range(view.district_options) =
               {All} \cup DistrictsUnder(view.selected_state)
        /\ view.df # <<>>
        /\ view.total > 0

\* C10 witness: a state and a district are selected and the page shows a
\* proper, non-empty part of the loaded records.
C10_Witness ==
    /\ Rendered
    /\ view.selected_state = "Bihar"
    /\ view.selected_district = "Patna"
    /\ view.total = 1
    /\ Len(cache.df) = 2

====
